---- MODULE Spec2Model ----
(***************************************************************************)
(* Model of the asking_form backend: the FastAPI endpoint                  *)
(* POST /submit-questions (src/backend/main.py) and the Telegram relay     *)
(* pipeline send_form_data (src/backend/telegram_bot.py).                  *)
(*                                                                         *)
(* Strings are sequences of one-character strings.  A request is one       *)
(* asyncio task; its steps are the stretches of code between awaits on the *)
(* network (bot.send_message, bot.send_document, bot.session.close).       *)
(*                                                                         *)
(* Three specifications share the variables:                               *)
(*   Spec        NReq submissions served concurrently by the endpoint;     *)
(*   SpecForm    one submission, payloads drawn from all short strings;    *)
(*   SpecRender  format_message / create_excel_file as pure functions on   *)
(*               arbitrary form_data dictionaries.                         *)
(***************************************************************************)
EXTENDS Integers, Sequences, FiniteSets, TLC

VARIABLES
    config,     \* [token, chat]: TELEGRAM_BOT_TOKEN / TELEGRAM_CHAT_ID, read once at import
    req,        \* req[r]: the state of submission r (one HTTP request / task)
    sessions,   \* the Bot sessions created so far, in creation order
    render      \* state of the pure-function specification SpecRender

vars == <<config, req, sessions, render>>

----------------------------------------------------------------------------
(* Bounds *)

\* number of submissions served concurrently in Spec
NReq == 2
\* longest raw field value drawn in SpecForm
MaxLen == 3
\* number of distinct clock readings (minutes) datetime.now() can return in SpecRender
MaxTime == 2

Reqs == 1..NReq

----------------------------------------------------------------------------
(* Strings *)

\* whitespace and a non-whitespace character: the raw material of field values
Chars == {" ", "a"}

Strings(n) == UNION {[1..k -> Chars] : k \in 0..n}

IsSpace(c) == c = " "

RECURSIVE LStrip(_)
LStrip(s) == IF s # <<>> /\ IsSpace(Head(s)) THEN LStrip(Tail(s)) ELSE s

RECURSIVE RStrip(_)
RStrip(s) ==
    IF s # <<>> /\ IsSpace(s[Len(s)]) THEN RStrip(SubSeq(s, 1, Len(s) - 1)) ELSE s

\* str.strip()
Strip(s) == RStrip(LStrip(s))

\* a string of n copies of c
Rep(c, n) == [i \in 1..n |-> c]

----------------------------------------------------------------------------
(* The form: class QuestionForm *)

Fields == {"question1", "answer1", "question2", "answer2", "question3", "answer3"}

\* the value standing for a key absent from the JSON body
Missing == <<"<missing>">>

\* minimum trimmed length of a field
MinLen == 2

\* validate_fields(cls, v): which error is raised ("required" for line 59, "min_2_chars"
\* for line 61, "missing" for an absent key), or "" when v is accepted
FieldErrorShortRaw(v) ==
    IF v = Missing THEN "missing"
    ELSE IF v = <<>> \/ Len(Strip(v)) = 0 THEN "required"
    ELSE IF Len(v) < MinLen THEN "min_2_chars"
    ELSE ""

FieldError(v) ==
    IF v = Missing THEN "missing"
    ELSE IF v = <<>> \/ Len(Strip(v)) = 0 THEN "required"
    ELSE IF Len(Strip(v)) < MinLen THEN "min_2_chars"
    ELSE ""

\* the value validate_fields returns for an accepted field
FieldValueUntrimmed(v) == v

FieldValue(v) == Strip(v)

\* pydantic runs the validator on every field and collects the errors
FormErrors(raw) == {f \in Fields : FieldError(raw[f]) # ""}

\* the QuestionForm instance built from a body that validates
MakeForm(raw) == [f \in Fields |-> FieldValue(raw[f])]

\* form_data before validation has produced a QuestionForm
NoForm == [f \in Fields |-> Missing]

----------------------------------------------------------------------------
(* Configuration: main.py lines 37-38 *)

\* os.getenv of a variable that is not set
NoneVal == "None"

\* a non-empty token that aiogram's validate_token rejects, and one it accepts
BadToken == "not-a-token"
GoodToken == "42:secret"

Tokens == {NoneVal, "", BadToken, GoodToken}
ChatIds == {NoneVal, "", "chat"}

\* Python truthiness of an Optional[str]
Truthy(x) == x # NoneVal /\ x # ""

\* `if TELEGRAM_BOT_TOKEN or TELEGRAM_CHAT_ID`: one of the two is enough
ConfiguredEither(cfg) == Truthy(cfg.token) \/ Truthy(cfg.chat)

\* `if TELEGRAM_BOT_TOKEN and TELEGRAM_CHAT_ID`
Configured(cfg) == Truthy(cfg.token) /\ Truthy(cfg.chat)

\* Bot(token=...) raises TokenValidationError unless the token is well formed
TokenValid(t) == t = GoodToken

----------------------------------------------------------------------------
(* HTTP responses *)

NoResponse == [code |-> 0]

\* FastAPI answers a body that fails QuestionForm validation itself, before the
\* handler is entered: RequestValidationError, status 422, detail = the errors.
\* main.py installs no exception handler that would change this.
ValidationStatus == 422

ValidationResponse(raw) ==
    [code |-> ValidationStatus,
     detail |-> [f \in FormErrors(raw) |-> FieldError(raw[f])]]

\* the handler's `except Exception as e: raise HTTPException(status_code=400, ...)`
ExceptionStatusServerError == 400 + 100

ExceptionStatus == 400

ExceptionResponse(e) == [code |-> ExceptionStatus, detail |-> e]

\* a handler that reports a submission as failed when nothing was delivered
SuccessResponseUnlessUndelivered(form, outcome) ==
    IF ~outcome.message_sent /\ ~outcome.excel_sent
    THEN [code |-> 400, detail |-> "not delivered"]
    ELSE [code |-> 200, status |-> "success", telegram_status |-> outcome, data |-> form]

\* the dict returned at lines 87-92; FastAPI sends it with status 200
SuccessResponse(form, outcome) ==
    [code |-> 200, status |-> "success", telegram_status |-> outcome, data |-> form]

----------------------------------------------------------------------------
(* The relay pipeline: send_form_data *)

\* results = {"message_sent": False, "excel_sent": False}
InitialResults == [message_sent |-> FALSE, excel_sent |-> FALSE]

\* a pooled Bot: reuse the session already there
NewBotPooled(sess, r) ==
    IF sess = <<>> THEN <<[owner |-> r, calls |-> <<>>]>> ELSE sess

\* bot = Bot(token=bot_token, ...): a new object with its own session
NewBot(sess, r) == Append(sess, [owner |-> r, calls |-> <<>>])

\* a call made by submission r on session s is recorded when it starts
Call(sess, s, op, r) ==
    [sess EXCEPT ![s].calls = Append(@, [op |-> op, by |-> r])]

\* results["message_sent"] = await send_message(...)
ResultsAfterText(results, ok) == [results EXCEPT !.message_sent = ok]

\* excel_sent that is only set when the text went out too
ResultsAfterFileCascade(results, ok) ==
    [results EXCEPT !.excel_sent = ok /\ results.message_sent]

\* results["excel_sent"] = await send_document(...)
ResultsAfterFile(results, ok) == [results EXCEPT !.excel_sent = ok]

Outcome(ok) == IF ok THEN "ok" ELSE "fail"

----------------------------------------------------------------------------
(* State of one submission *)

IdleReq ==
    [pc |-> "idle", raw |-> NoForm, form |-> NoForm, bot |-> 0,
     results |-> InitialResults, text |-> "none", built |-> "none",
     file |-> "none", closeRaised |-> FALSE, response |-> NoResponse]

\* the calls submission r has started, over all sessions
CallsBy(r, op) ==
    {<<s, i>> \in UNION {{s} \X (1..Len(sessions[s].calls)) : s \in 1..Len(sessions)} :
        sessions[s].calls[i] = [op |-> op, by |-> r]}

NCalls(r, op) == Cardinality(CallsBy(r, op))

----------------------------------------------------------------------------
(* Actions *)

\* a client posts a body to /submit-questions
Submit(r, payloads) ==
    /\ req[r].pc = "idle"
    /\ \E p \in payloads :
         req' = [req EXCEPT ![r].pc = "received", ![r].raw = p]
    /\ UNCHANGED <<config, sessions, render>>

\* FastAPI builds form_data: QuestionForm from the body
Validate(r) ==
    /\ req[r].pc = "received"
    /\ IF FormErrors(req[r].raw) # {}
       THEN req' = [req EXCEPT ![r].pc = "done",
                               ![r].response = ValidationResponse(req[r].raw)]
       ELSE req' = [req EXCEPT ![r].pc = "handler",
                               ![r].form = MakeForm(req[r].raw)]
    /\ UNCHANGED <<config, sessions, render>>

\* submit_questions up to its first suspension: either it answers at once, or
\* send_form_data has created the Bot and is awaiting bot.send_message
SubmitQuestions(r) ==
    /\ req[r].pc = "handler"
    /\ IF ~Configured(config)
       THEN /\ req' = [req EXCEPT ![r].pc = "done",
                         ![r].response = SuccessResponse(req[r].form, InitialResults)]
            /\ UNCHANGED sessions
       ELSE IF ~TokenValid(config.token)
       THEN /\ req' = [req EXCEPT ![r].pc = "done",
                         ![r].response = ExceptionResponse("TokenValidationError")]
            /\ UNCHANGED sessions
       ELSE LET made == NewBot(sessions, r)
                bot == Len(made)
            IN /\ sessions' = Call(made, bot, "send_message", r)
               /\ req' = [req EXCEPT ![r].pc = "sending_text",
                                     ![r].bot = bot,
                                     ![r].results = InitialResults]
    /\ UNCHANGED <<config, render>>

\* send_message retried once when the first attempt fails
SendMessageReturnRetry(r) ==
    /\ req[r].pc = "sending_text"
    /\ \E ok \in BOOLEAN, built \in BOOLEAN :
         IF ~ok /\ Len(sessions[req[r].bot].calls) = 1
         THEN /\ sessions' = Call(sessions, req[r].bot, "send_message", r)
              /\ UNCHANGED req
         ELSE /\ req' = [req EXCEPT ![r].pc = IF built THEN "sending_file" ELSE "closing",
                                    ![r].results = ResultsAfterText(req[r].results, ok),
                                    ![r].text = Outcome(ok),
                                    ![r].built = Outcome(built)]
              /\ sessions' = Call(sessions, req[r].bot,
                                  IF built THEN "send_document" ELSE "close", r)
    /\ UNCHANGED <<config, render>>

\* session.close() placed after send_document instead of in `finally`: a
\* workbook that cannot be built returns without closing
SendMessageReturnNoFinally(r) ==
    /\ req[r].pc = "sending_text"
    /\ \E ok \in BOOLEAN, built \in BOOLEAN :
         LET res == ResultsAfterText(req[r].results, ok)
         IN /\ req' = [req EXCEPT ![r].pc = IF built THEN "sending_file" ELSE "done",
                                  ![r].results = res,
                                  ![r].text = Outcome(ok),
                                  ![r].built = Outcome(built),
                                  ![r].response =
                                      IF built THEN @ ELSE SuccessResponse(req[r].form, res)]
            /\ sessions' = IF built
                           THEN Call(sessions, req[r].bot, "send_document", r)
                           ELSE sessions
    /\ UNCHANGED <<config, render>>

\* bot.send_message returns or raises; send_message turns that into a bool;
\* create_excel_file then builds the workbook or raises; if it was built,
\* send_document starts, otherwise the inner except logs and the function
\* returns through `finally`, which awaits bot.session.close().
\* (send_message, send_document and the inner try catch every Exception, and
\* format_message is total on a validated form, so the outer `except
\* Exception` of send_form_data has nothing left to catch.  What the text and
\* the workbook contain is the subject of SpecRender.)
SendMessageReturn(r) ==
    /\ req[r].pc = "sending_text"
    /\ \E ok \in BOOLEAN, built \in BOOLEAN :
         LET res == ResultsAfterText(req[r].results, ok)
         IN /\ req' = [req EXCEPT ![r].pc = IF built THEN "sending_file" ELSE "closing",
                                  ![r].results = res,
                                  ![r].text = Outcome(ok),
                                  ![r].built = Outcome(built)]
            /\ sessions' = Call(sessions, req[r].bot,
                                IF built THEN "send_document" ELSE "close", r)
    /\ UNCHANGED <<config, render>>

\* bot.send_document returns or raises; send_document turns that into a bool;
\* the function returns through `finally`, which awaits bot.session.close()
SendDocumentReturn(r) ==
    /\ req[r].pc = "sending_file"
    /\ \E ok \in BOOLEAN :
         /\ req' = [req EXCEPT ![r].pc = "closing",
                               ![r].results = ResultsAfterFile(req[r].results, ok),
                               ![r].file = Outcome(ok)]
         /\ sessions' = Call(sessions, req[r].bot, "close", r)
    /\ UNCHANGED <<config, render>>

\* bot.session.close() returns or raises (the bare except swallows it);
\* send_form_data returns results and submit_questions returns its dict
SessionCloseReturn(r) ==
    /\ req[r].pc = "closing"
    /\ \E raised \in BOOLEAN :
         req' = [req EXCEPT ![r].pc = "done",
                            ![r].closeRaised = raised,
                            ![r].response = SuccessResponse(req[r].form, req[r].results)]
    /\ UNCHANGED <<config, sessions, render>>

----------------------------------------------------------------------------
(* Specification of the service *)

\* a valid body with each field exactly two characters long
BasePayload ==
    [f \in Fields |->
        CASE f = "question1" -> <<"q", "1">>
          [] f = "answer1" -> <<"a", "1">>
          [] f = "question2" -> <<"q", "2">>
          [] f = "answer2" -> <<"a", "2">>
          [] f = "question3" -> <<"q", "3">>
          [] f = "answer3" -> <<"a", "3">>]

\* the bodies posted in Spec: the valid one and one with a field of trimmed
\* length 1 (SpecForm covers the other bodies)
ServicePayloads ==
    {BasePayload, [BasePayload EXCEPT !["answer2"] = <<" ", "a">>]}

NoRender == [pc |-> "off"]

Init ==
    /\ config \in [token : Tokens, chat : ChatIds]
    /\ req = [r \in Reqs |-> IdleReq]
    /\ sessions = <<>>
    /\ render = NoRender

Next ==
    \E r \in Reqs :
        \/ Submit(r, ServicePayloads)
        \/ Validate(r)
        \/ SubmitQuestions(r)
        \/ SendMessageReturn(r)
        \/ SendDocumentReturn(r)
        \/ SessionCloseReturn(r)

Spec == Init /\ [][Next]_vars

----------------------------------------------------------------------------
(* Specification of one submission over all short payloads *)

FormValues == Strings(MaxLen) \cup {Missing}

\* the valid body with up to two fields replaced, and bodies whose six fields
\* all hold the same value
FormPayloads ==
    {[BasePayload EXCEPT ![f1] = v1, ![f2] = v2] :
        f1 \in Fields, f2 \in Fields, v1 \in FormValues, v2 \in FormValues}
    \cup {[f \in Fields |-> v] : v \in FormValues}

NextForm ==
    \E r \in {1} :
        \/ Submit(r, FormPayloads)
        \/ Validate(r)
        \/ SubmitQuestions(r)
        \/ SendMessageReturn(r)
        \/ SendDocumentReturn(r)
        \/ SessionCloseReturn(r)

SpecForm == Init /\ [][NextForm]_vars

----------------------------------------------------------------------------
(* Rendering: format_message and create_excel_file *)

Pairs == 1..3

\* f'question{i}' and f'answer{i}'
QuestionKey(i) == CASE i = 1 -> "question1" [] i = 2 -> "question2" [] i = 3 -> "question3"
AnswerKey(i) == CASE i = 1 -> "answer1" [] i = 2 -> "answer2" [] i = 3 -> "answer3"

\* truthiness of form_data.get(key): None (no such key) and "" are falsy
Filled(v) == v # Missing /\ v # <<>>

\* a pair is rendered when either of its two values is there
HasPairEither(fd, i) == Filled(fd[QuestionKey(i)]) \/ Filled(fd[AnswerKey(i)])

\* `if form_data.get(question_key) and form_data.get(answer_key)`
HasPair(fd, i) == Filled(fd[QuestionKey(i)]) /\ Filled(fd[AnswerKey(i)])

\* the cells of a worksheet
IntCell(n) == [t |-> "int", v |-> n]
StrCell(s) == [t |-> "str", v |-> s]
TimeCell(m) == [t |-> "time", v |-> m]
HeadCell(name) == [t |-> "head", v |-> name]

\* the keys of the row dictionaries, in insertion order: they become the
\* DataFrame's columns ("Номер вопроса", "Вопрос", "Ответ", "Дата отправки")
Header == <<HeadCell("index"), HeadCell("question"), HeadCell("answer"), HeadCell("timestamp")>>

\* len(str(cell.value))
CellLen(c) ==
    CASE c.t = "int" -> IF c.v < 10 THEN 1 ELSE 2
      [] c.t = "str" -> Len(c.v)
      [] c.t = "time" -> 16
      [] c.t = "head" ->
           CASE c.v = "index" -> 13
             [] c.v = "question" -> 6
             [] c.v = "answer" -> 5
             [] c.v = "timestamp" -> 13

\* the widest column the auto-sizing sets
WidthCap == 50

Min(a, b) == IF a <= b THEN a ELSE b

RECURSIVE MaxLength(_)
\* the loop over the cells of one column, starting from max_length = 0
MaxLength(cells) ==
    IF cells = <<>> THEN 0
    ELSE LET rest == MaxLength(Tail(cells))
         IN IF CellLen(Head(cells)) > rest THEN CellLen(Head(cells)) ELSE rest

\* adjusted_width = min(max_length + 2, 50)
AdjustedWidth(cells) == Min(MaxLength(cells) + 2, WidthCap)

RECURSIVE DataRows(_, _, _)
\* the loop `for i in range(1, 4)` of create_excel_file from pair i on;
\* now[i] is the minute datetime.now() returns while pair i is handled
DataRows(fd, now, i) ==
    IF i > 3 THEN <<>>
    ELSE IF HasPair(fd, i)
    THEN <<  <<IntCell(i), StrCell(fd[QuestionKey(i)]),
               StrCell(fd[AnswerKey(i)]), TimeCell(now[i])>>  >>
         \o DataRows(fd, now, i + 1)
    ELSE DataRows(fd, now, i + 1)

\* the worksheet df.to_excel(index=False) writes: a DataFrame built from an
\* empty list has no columns, so nothing is written; otherwise the header row
\* and the data rows.  Then the widths set for every column of the worksheet.
CreateExcelFile(fd, now) ==
    LET rows == DataRows(fd, now, 1)
        header == IF rows = <<>> THEN <<>> ELSE Header
        grid == IF rows = <<>> THEN <<>> ELSE <<header>> \o rows
        column(c) == [k \in 1..Len(grid) |-> grid[k][c]]
    IN [header |-> header,
        rows |-> rows,
        widths |-> [c \in 1..Len(header) |-> AdjustedWidth(column(c))]]

RECURSIVE Blocks(_, _)
\* the loop `for i in range(1, 4)` of format_message from pair i on
Blocks(fd, i) ==
    IF i > 3 THEN <<>>
    ELSE IF HasPair(fd, i)
    THEN << [t |-> "question", n |-> i, body |-> fd[QuestionKey(i)]],
            [t |-> "answer", n |-> i, body |-> fd[AnswerKey(i)]],
            [t |-> "rule"] >>
         \o Blocks(fd, i + 1)
    ELSE Blocks(fd, i + 1)

\* the text: title line, "sent at" line, then the blocks
FormatMessage(fd, at) ==
    << [t |-> "title"], [t |-> "sent", at |-> at] >> \o Blocks(fd, 1)

----------------------------------------------------------------------------
(* Specification of the rendering functions on arbitrary form_data *)

Times == 1..MaxTime

\* absent, empty, whitespace, short, and long enough to exceed the width cap
RenderValues == {Missing, <<>>, <<" ">>, <<"a", "b">>, Rep("x", WidthCap)}

InitRender ==
    /\ config = [token |-> NoneVal, chat |-> NoneVal]
    /\ req = [r \in Reqs |-> IdleReq]
    /\ sessions = <<>>
    /\ \E fd \in [Fields -> RenderValues] :
         render = [pc |-> "input", form_data |-> fd]

\* message_text = format_message(form_data)
FormatMessageStep ==
    /\ render.pc = "input"
    /\ \E at \in Times :
         render' = [pc |-> "formatted", form_data |-> render.form_data, at |-> at,
                    message |-> FormatMessage(render.form_data, at)]
    /\ UNCHANGED <<config, req, sessions>>

\* excel_bytes = create_excel_file(form_data); the clock does not run backwards
CreateExcelFileStep ==
    /\ render.pc = "formatted"
    /\ \E now \in [Pairs -> Times] :
         /\ render.at <= now[1] /\ now[1] <= now[2] /\ now[2] <= now[3]
         /\ render' = [pc |-> "built", form_data |-> render.form_data,
                       at |-> render.at, message |-> render.message,
                       sheet |-> CreateExcelFile(render.form_data, now)]
    /\ UNCHANGED <<config, req, sessions>>

NextRender == FormatMessageStep \/ CreateExcelFileStep

SpecRender == InitRender /\ [][NextRender]_vars

----------------------------------------------------------------------------
(* Vocabulary of the properties *)

Done(r) == req[r].pc = "done"

\* the body has reached the validator
Validated(r) == req[r].pc \notin {"idle", "received"}

NonSpace(v) == {i \in 1..Len(v) : v[i] # " "}

Least(S) == CHOOSE x \in S : \A y \in S : x <= y
Greatest(S) == CHOOSE x \in S : \A y \in S : x >= y

\* length of v without its leading and trailing whitespace
TrimmedLen(v) ==
    IF NonSpace(v) = {} THEN 0 ELSE Greatest(NonSpace(v)) - Least(NonSpace(v)) + 1

\* t is v without its leading and trailing whitespace
IsTrimOf(t, v) ==
    IF NonSpace(v) = {} THEN t = <<>>
    ELSE t = SubSeq(v, Least(NonSpace(v)), Greatest(NonSpace(v)))

GoodField(v) == v # Missing /\ TrimmedLen(v) >= 2

\* empty, whitespace-only, or of trimmed length 1
BadField(v) == v # Missing /\ TrimmedLen(v) <= 1

ValidBody(raw) == \A f \in Fields : GoodField(raw[f])

OneBadField(raw) ==
    \E f \in Fields : BadField(raw[f]) /\ \A g \in Fields \ {f} : GoodField(raw[g])

\* the channel can be used: both settings present and the token well formed
Working == config.token = GoodToken /\ config.chat = "chat"

NoCallsBy(r) ==
    \A s \in 1..Len(sessions) :
        /\ sessions[s].owner # r
        /\ \A i \in 1..Len(sessions[s].calls) : sessions[s].calls[i].by # r

Skipped == [message_sent |-> FALSE, excel_sent |-> FALSE]

----------------------------------------------------------------------------
(* Properties *)

C2_SessionReleased ==
    \A r \in Reqs :
        req[r].bot # 0 =>
            LET calls == sessions[req[r].bot].calls
                closes == {i \in 1..Len(calls) : calls[i].op = "close"}
            IN /\ closes \subseteq {Len(calls)}
               /\ req[r].pc \in {"closing", "done"} <=> closes # {}
               /\ Done(r) => req[r].response # NoResponse

C2_Witness ==
    \E r \in Reqs :
        /\ Done(r)
        /\ req[r].text = "fail"
        /\ req[r].built = "fail"
        /\ req[r].closeRaised
        /\ sessions[req[r].bot].calls[2].op = "close"

\* C3: message_sent is true exactly when the send-text call succeeded and
\* excel_sent exactly when the workbook was built and the send-file call
\* succeeded; a failed send-text does not keep the workbook from being built
\* and sent.
C3_FlagsFaithful ==
    \A r \in Reqs :
        Done(r) /\ req[r].bot # 0 =>
            /\ req[r].results.message_sent = (req[r].text = "ok")
            /\ req[r].results.excel_sent = (req[r].built = "ok" /\ req[r].file = "ok")
            /\ req[r].text # "none" /\ req[r].built # "none"
            /\ req[r].built = "ok" <=> req[r].file # "none"

C3_Witness ==
    \E r \in Reqs :
        /\ Done(r)
        /\ req[r].text = "fail"
        /\ req[r].file = "ok"
        /\ req[r].results = [message_sent |-> FALSE, excel_sent |-> TRUE]

\* C4: with a working channel configuration, a valid submission is answered
\* with HTTP 200, status "success" and telegram_status equal to the outcome
\* send_form_data returned, whichever of the three steps failed.
C4_FailuresNotRaised ==
    \A r \in Reqs :
        Done(r) /\ Working /\ ValidBody(req[r].raw) =>
            /\ req[r].bot # 0
            /\ req[r].response.code = 200
            /\ req[r].response.status = "success"
            /\ req[r].response.telegram_status = req[r].results

C4_Witness ==
    \E r \in Reqs :
        /\ Done(r)
        /\ req[r].text = "fail"
        /\ req[r].file = "fail"
        /\ req[r].response.code = 200

\* C5 (as stated): with the token missing or of invalid format, a valid
\* submission is answered with HTTP 200 and telegram_status
\* {message_sent: false, excel_sent: false}.
C5_FaultDegrades ==
    \A r \in Reqs :
        Done(r) /\ ValidBody(req[r].raw) /\ config.token # GoodToken =>
            /\ req[r].response.code = 200
            /\ req[r].response.telegram_status = Skipped

\* C5 (amended): a missing token degrades to delivery skipped (HTTP 200, both
\* flags false); a token of invalid format, with the recipient set, makes
\* Bot() raise, and the request is answered with HTTP 400, without a session
\* and without any outbound call.
C5_MissingDegradesInvalidFails ==
    \A r \in Reqs :
        Done(r) /\ ValidBody(req[r].raw) =>
            /\ config.token \in {NoneVal, ""} =>
                  /\ req[r].response.code = 200
                  /\ req[r].response.telegram_status = Skipped
            /\ config.token = BadToken /\ config.chat = "chat" =>
                  /\ req[r].response.code = 400
                  /\ req[r].bot = 0
                  /\ NoCallsBy(r)

C5_Witness ==
    \E r \in Reqs :
        /\ Done(r)
        /\ config.token = BadToken
        /\ config.chat = "chat"
        /\ req[r].response.code = 400

\* C6: with the token or the chat id unset, a valid submission opens no
\* session and makes no call, and is answered with HTTP 200 and telegram_status
\* {message_sent: false, excel_sent: false}.
C6_UnsetSkipsDelivery ==
    \A r \in Reqs :
        /\ config.token \in {NoneVal, ""} \/ config.chat \in {NoneVal, ""} =>
              sessions = <<>> /\ req[r].bot = 0
        /\ (config.token \in {NoneVal, ""} \/ config.chat \in {NoneVal, ""})
             /\ Done(r) /\ ValidBody(req[r].raw) =>
              /\ req[r].response.code = 200
              /\ req[r].response.telegram_status = Skipped

C6_Witness ==
    \E r \in Reqs :
        /\ Done(r)
        /\ config.token = GoodToken
        /\ config.chat = NoneVal
        /\ req[r].response.code = 200

\* C7: a submission run through send_form_data makes exactly one send-text
\* call and, if the workbook was built, exactly one send-file call (none
\* otherwise); the send-file call starts only after the send-text call has
\* completed; a submission equal to another one makes its own calls.
C7_ExactlyOnce ==
    \A r \in Reqs :
        /\ NCalls(r, "send_message") <= 1
        /\ NCalls(r, "send_document") <= 1
        /\ NCalls(r, "send_document") = 1 => req[r].text # "none"
        /\ Done(r) /\ Working /\ ValidBody(req[r].raw) =>
              /\ NCalls(r, "send_message") = 1
              /\ NCalls(r, "send_document") = IF req[r].built = "ok" THEN 1 ELSE 0

C7_Witness ==
    \E r1 \in Reqs, r2 \in Reqs :
        /\ r1 # r2
        /\ Done(r1) /\ Done(r2)
        /\ req[r1].raw = req[r2].raw
        /\ req[r1].text = "fail" /\ req[r1].file = "fail"
        /\ NCalls(r1, "send_message") = 1 /\ NCalls(r1, "send_document") = 1
        /\ NCalls(r2, "send_message") = 1 /\ NCalls(r2, "send_document") = 0

\* C10: under any interleaving, each submission that delivers has a session of
\* its own: it created it, every call on it (close included) is its own, no
\* two submissions hold the same session, and its flags follow its own calls.
C10_SessionsPrivate ==
    /\ \A s \in 1..Len(sessions) :
          \A i \in 1..Len(sessions[s].calls) :
              /\ sessions[s].calls[i].by = sessions[s].owner
              /\ req[sessions[s].owner].bot = s
    /\ \A r \in Reqs :
          req[r].bot # 0 =>
              /\ sessions[req[r].bot].owner = r
              /\ \A q \in Reqs \ {r} : req[q].bot # req[r].bot
              /\ req[r].results.message_sent = (req[r].text = "ok")
              /\ req[r].results.excel_sent = (req[r].file = "ok")
              /\ Done(r) =>
                    LET calls == sessions[req[r].bot].calls
                    IN calls[Len(calls)] = [op |-> "close", by |-> r]
    /\ Len(sessions) = Cardinality({r \in Reqs : req[r].bot # 0})

C10_Witness ==
    \E r1 \in Reqs, r2 \in Reqs :
        /\ req[r1].pc = "sending_file"
        /\ req[r2].pc = "closing"
        /\ req[r1].bot > req[r2].bot
        /\ req[r1].raw = req[r2].raw
        /\ req[r1].results # req[r2].results

\* C8: the validator accepts a body exactly when all six fields are present
\* with trimmed length >= 2; an accepted form, and the `data` echoed with the
\* 200 answer, hold every field trimmed; a body with any invalid field is
\* rejected whole: no form, no session, no 200 answer.
C8_AcceptIffAllValid ==
    \A r \in Reqs :
        Validated(r) =>
            /\ ValidBody(req[r].raw) <=> req[r].form # NoForm
            /\ ValidBody(req[r].raw) =>
                  /\ \A f \in Fields : IsTrimOf(req[r].form[f], req[r].raw[f])
                  /\ Done(r) /\ req[r].response.code = 200 =>
                        \A f \in Fields :
                            IsTrimOf(req[r].response.data[f], req[r].raw[f])
            /\ ~ValidBody(req[r].raw) =>
                  /\ Done(r)
                  /\ req[r].response.code # 200
                  /\ req[r].bot = 0

C8_Witness ==
    \E r \in Reqs :
        /\ Done(r)
        /\ req[r].response.code = 200
        /\ \A f \in Fields \ {"question2", "answer3"} : Len(req[r].raw[f]) = 2
        /\ req[r].raw["question2"] = <<" ", "a", "a">>
        /\ req[r].raw["answer3"] = <<"a", " ", "a">>
        /\ req[r].response.data["question2"] = <<"a", "a">>
        /\ req[r].response.data["answer3"] = <<"a", " ", "a">>

\* C9: create_excel_file writes exactly one row per pair whose question and
\* answer are both non-empty, in the order 1,2,3, each row holding index,
\* question, answer, timestamp in that order under a header in the same order;
\* no column width exceeds 50; format_message writes a question block and an
\* answer block for the same pairs in the same order, so a form with all six
\* values gives 3 rows and 3 pairs of blocks.
C9_RowsAndBlocks ==
    render.pc = "built" =>
        LET fd == render.form_data
            sheet == render.sheet
            nonEmpty(v) == v # Missing /\ Len(v) > 0
            kept == {i \in Pairs : nonEmpty(fd[QuestionKey(i)]) /\ nonEmpty(fd[AnswerKey(i)])}
            answers == {k \in 1..Len(render.message) : render.message[k].t = "answer"}
        IN /\ Len(sheet.rows) = Cardinality(kept)
           /\ {sheet.rows[k][1].v : k \in 1..Len(sheet.rows)} = kept
           /\ \A k \in 1..Len(sheet.rows) :
                 /\ k > 1 => sheet.rows[k - 1][1].v < sheet.rows[k][1].v
                 /\ Len(sheet.rows[k]) = 4
                 /\ sheet.rows[k][1].t = "int"
                 /\ sheet.rows[k][2] = [t |-> "str", v |-> fd[QuestionKey(sheet.rows[k][1].v)]]
                 /\ sheet.rows[k][3] = [t |-> "str", v |-> fd[AnswerKey(sheet.rows[k][1].v)]]
                 /\ sheet.rows[k][4].t = "time"
           /\ sheet.rows # <<>> =>
                 [c \in 1..4 |-> sheet.header[c].v] =
                     <<"index", "question", "answer", "timestamp">>
           /\ \A c \in DOMAIN sheet.widths : sheet.widths[c] <= 50
           /\ Cardinality(answers) = Cardinality(kept)
           /\ \A k \in answers :
                 /\ render.message[k].n \in kept
                 /\ render.message[k].body = fd[AnswerKey(render.message[k].n)]
                 /\ render.message[k - 1] =
                        [t |-> "question", n |-> render.message[k].n,
                         body |-> fd[QuestionKey(render.message[k].n)]]
                 /\ \A j \in answers : j < k => render.message[j].n < render.message[k].n
           /\ {render.message[k].n : k \in answers} = kept
           /\ (\A f \in Fields : nonEmpty(fd[f])) =>
                 Len(sheet.rows) = 3 /\ Cardinality(answers) = 3

C9_Witness ==
    /\ render.pc = "built"
    /\ Len(render.sheet.rows) = 2
    /\ render.sheet.rows[2][1].v = 3
    /\ render.form_data["answer2"] = <<>>
    /\ Len(render.form_data["question3"]) = 50
    /\ render.sheet.widths[2] = 50
    /\ render.sheet.widths[1] = 15
    /\ Len(render.message) = 8

====
